---------------------------- MODULE Spec2Model ----------------------------
(***************************************************************************)
(* State-machine model of src/up.py: the one-to-many incremental sync of   *)
(* one source database to several destination databases                    *)
(* (incremental_upsert, reconcile_deletions, main).                        *)
(*                                                                         *)
(* A database is a function from collection names to collections; a        *)
(* collection is a function from _id to the rest of the document (a        *)
(* record of fields).  Collection names are sequences of tokens, so that   *)
(* str.startswith is computed, not assumed.  One action is one store       *)
(* round trip (or one loop-control step) of the code.                      *)
(***************************************************************************)
EXTENDS Integers, Sequences, FiniteSets, TLC

\* ------------------------------------------------------------------ bounds
\* documents have _id in 1..MaxId
MaxId == 3
\* number of destination clients in dst_clients
NumDst == 2
\* src/up.py:29 sets 200_000; scaled to the size of the modelled collections
IN_MEMORY_ID_THRESHOLD == 1

Ids == 1..MaxId
Dsts == 1..NumDst
\* main() is run at most twice in a row
Runs == {1, 2}

\* ------------------------------------------------------------ collection names
ORDERS == <<"orders">>
USERS == <<"users">>
SYSVIEWS == <<"system", ".", "views">>
Names == {ORDERS, USERS, SYSVIEWS}
NoColl == <<>>
SYSTEM_PREFIX == <<"system", ".">>

\* equality with the prefix instead of a prefix test
startswith_exact(s, prefix) == s = prefix

\* str.startswith(prefix)
startswith(s, prefix) ==
    /\ Len(s) >= Len(prefix)
    /\ SubSeq(s, 1, Len(prefix)) = prefix

\* the filter of lines 55, 89 and 90
Reserved(c) == startswith(c, SYSTEM_PREFIX)

\* ------------------------------------------------------------ documents
\* two document contents with different field sets
BodyA == [x |-> 1]
BodyB == [y |-> 1]

Put(f, k, v) == [i \in DOMAIN f \cup {k} |-> IF i = k THEN v ELSE f[i]]
Remove(f, k) == [i \in DOMAIN f \ {k} |-> f[i]]
EmptyColl == <<>>
EmptyDb == <<>>

\* ------------------------------------------------------------ store operations
\* db[coll_name]: a collection that does not exist reads as empty
Coll(db, c) == IF c \in DOMAIN db THEN db[c] ELSE EmptyColl

list_collection_names(db) == DOMAIN db

\* coll.count_documents({})
count_documents(db, c) == Cardinality(DOMAIN Coll(db, c))

\* coll.count_documents({"_id": id}, limit=1)
count_documents_id(db, c, id) == IF id \in DOMAIN Coll(db, c) THEN 1 ELSE 0

\* a replace that merges fields into the stored document instead of
\* replacing it (update with $set)
replace_one_merge(db, c, id, body) ==
    LET old == IF id \in DOMAIN Coll(db, c) THEN Coll(db, c)[id] ELSE body
        merged == [f \in DOMAIN old \cup DOMAIN body |->
                      IF f \in DOMAIN body THEN body[f] ELSE old[f]]
    IN  Put(db, c, Put(Coll(db, c), id, merged))

\* dst_coll.replace_one({"_id": id}, doc, upsert=True): full replace, or
\* insert (creating the collection) when no document has that _id
replace_one(db, c, id, body) == Put(db, c, Put(Coll(db, c), id, body))

\* dst_coll.delete_one({"_id": id}); the collection stays, even when empty
delete_one(db, c, id) ==
    IF c \in DOMAIN db /\ id \in DOMAIN db[c]
    THEN [db EXCEPT ![c] = Remove(db[c], id)]
    ELSE db

\* a drop that deletes every document and keeps the collection
drop_collection_emptied(db, c) ==
    IF c \in DOMAIN db THEN [db EXCEPT ![c] = EmptyColl] ELSE db

\* dst_db.drop_collection(coll)
drop_collection(db, c) == Remove(db, c)

\* ------------------------------------------------------------ errors
PyMongoError == "PyMongoError"
\* an Exception that is no PyMongoError
OtherError == "OtherError"
Errors == {PyMongoError, OtherError}
Outcomes == {"ok"} \cup Errors

\* except PyMongoError / except Exception
Catches(handler, e) ==
    \/ handler = "Exception"
    \/ handler = "PyMongoError" /\ e = PyMongoError

\* the test with < for <=
Materialize_strict(count, threshold) == count < threshold

\* the strategy test of lines 67 and 113
Materialize(count, threshold) == count <= threshold

VARIABLES
    src,        \* the source database
    dst,        \* dst[d]: the database of destination d
    threshold,  \* the value of IN_MEMORY_ID_THRESHOLD the runs read
    run,        \* run[r]: position and locals of the r-th call of main
    ops,        \* the store operations issued so far
    log,        \* the entries handed to the logger
    faults,     \* the store operations that raised
    start,      \* start[r]: dst when run r started (<<>> before)
    final       \* final[r]: dst when run r returned (<<>> before)

vars == <<src, dst, threshold, run, ops, log, faults, start, final>>

NoSnap == <<>>

Idle ==
    [pc |-> "idle", d |-> 0, todo |-> {}, drops |-> {}, coll |-> NoColl,
     n |-> 0, docs |-> EmptyColl, seen |-> {}, doc |-> 0, ids |-> {},
     deleted |-> 0, exc |-> {}]

\* ------------------------------------------------------------ initial states
\* source collections hold ids 1..k, every document with BodyA
SrcOrders == {[i \in 1..k |-> BodyA] : k \in 0..MaxId}
SrcFixtures ==
    { [c \in cs |-> IF c = ORDERS THEN o ELSE [i \in {1} |-> BodyA]] :
        cs \in SUBSET Names, o \in SrcOrders }

\* destination "orders" holds ids lo..MaxId: id 1 as in the source, the
\* others with another content
DstOrders ==
    {[i \in lo..MaxId |-> IF i = 1 THEN BodyA ELSE BodyB] : lo \in 1..(MaxId + 1)}
DstFixtures ==
    { [c \in cs |-> IF c = ORDERS THEN o ELSE [i \in {1, 2} |-> BodyB]] :
        cs \in SUBSET Names, o \in DstOrders }
\* a destination holding every collection, no document as in the source
DstFull ==
    [c \in Names |-> IF c = ORDERS THEN [i \in Ids |-> BodyB]
                     ELSE [i \in {1, 2} |-> BodyB]]
InitRun ==
    /\ run = [r \in Runs |-> Idle]
    /\ ops = {}
    /\ log = {}
    /\ faults = {}
    /\ start = [r \in Runs |-> NoSnap]
    /\ final = [r \in Runs |-> NoSnap]

\* the first destination ranges over the fixtures, the others are full
InitStores ==
    /\ src \in SrcFixtures
    /\ dst \in {f \in [Dsts -> DstFixtures \cup {DstFull}] :
                  /\ f[1] \in DstFixtures
                  /\ \A d \in Dsts \ {1} : f[d] = DstFull}

Init ==
    /\ InitStores
    /\ InitRun
    /\ threshold = IN_MEMORY_ID_THRESHOLD

\* the runs compared by strategy: the first with every count at or below
\* the threshold
InitEquiv ==
    /\ InitStores
    /\ InitRun
    /\ threshold = MaxId

\* the stores of the runs with a raising store call: an empty source, or a
\* source with "orders" at the threshold or one document above it and
\* "users" below it; the first destination empty or full, the others full
FaultSrc ==
    {EmptyDb} \cup
    { [c \in Names |-> IF c = ORDERS THEN [i \in 1..k |-> BodyA]
                       ELSE [i \in {1} |-> BodyA]] :
        k \in {IN_MEMORY_ID_THRESHOLD, IN_MEMORY_ID_THRESHOLD + 1} }

InitFault ==
    /\ src \in FaultSrc
    /\ dst \in {f \in [Dsts -> {EmptyDb, DstFull}] :
                  \A d \in Dsts \ {1} : f[d] = DstFull}
    /\ InitRun
    /\ threshold = IN_MEMORY_ID_THRESHOLD

\* a collection held by a destination only
ARCHIVE == <<"archive">>

\* a full destination with one more collection
DstWide == Put(DstFull, ARCHIVE, [i \in {1} |-> BodyB])

\* the stores of the runs in which a call may raise any Exception: the
\* sources above, or a source with "orders" alone (at the threshold or one
\* above); the first destination with two collections the source lacks
AnyFaultSrc ==
    FaultSrc \cup
    { [c \in {ORDERS} |-> [i \in 1..k |-> BodyA]] :
        k \in {IN_MEMORY_ID_THRESHOLD, IN_MEMORY_ID_THRESHOLD + 1} }

InitAnyFault ==
    /\ src \in AnyFaultSrc
    /\ dst \in {f \in [Dsts -> {DstWide, DstFull}] :
                  /\ f[1] = DstWide
                  /\ \A d \in Dsts \ {1} : f[d] = DstFull}
    /\ InitRun
    /\ threshold = IN_MEMORY_ID_THRESHOLD

\* the stores of two runs at once: the source has "orders" alone, with one
\* document; the first destination has that document with another content
\* and one the source lacks, and a collection the source lacks; the other
\* destinations are empty.  The threshold is 0 (STREAM for "orders") or the
\* configured one (MATERIALIZE).
ConcSrc == [c \in {ORDERS} |-> [i \in {1} |-> BodyA]]

ConcDst ==
    [c \in {ORDERS, USERS} |->
       IF c = ORDERS THEN [i \in {1, 2} |-> BodyB] ELSE [i \in {1} |-> BodyB]]

InitConc ==
    /\ src = ConcSrc
    /\ dst = [d \in Dsts |-> IF d = 1 THEN ConcDst ELSE EmptyDb]
    /\ InitRun
    /\ threshold \in {0, IN_MEMORY_ID_THRESHOLD}

\* ------------------------------------------------------------ bookkeeping
\* logger.info / logger.exception
Entry(r, level, msg, c, args) ==
    [run |-> r, dst |-> run[r].d, level |-> level, msg |-> msg, coll |-> c,
     args |-> args]

Op(r, phase, target, op, c, id) ==
    [run |-> r, dst |-> run[r].d, phase |-> phase, target |-> target,
     op |-> op, coll |-> c, id |-> id]

\* a raising call, with the collections its loop had not reached yet
Fault(r, phase, op, c, e) ==
    [run |-> r, dst |-> run[r].d, phase |-> phase, op |-> op, coll |-> c,
     err |-> e, rest |-> run[r].todo]

\* one store call with outcome o: the call is issued, and raises unless
\* o = "ok"; one call raises in a behaviour, at most
Call(r, o, phase, target, op, c, id) ==
    /\ o = "ok" \/ faults = {}
    /\ ops' = ops \cup {Op(r, phase, target, op, c, id)}
    /\ faults' = IF o = "ok" THEN faults
                 ELSE faults \cup {Fault(r, phase, op, c, o)}

Set(r, rec) == run' = [run EXCEPT ![r] = rec]
Locals(r) == [Idle EXCEPT !.d = run[r].d]

\* an exception no handler catches leaves main; exc keeps the call that raised
Crash(r, e) ==
    Set(r, [Locals(r) EXCEPT !.pc = "crashed", !.exc = faults' \ faults])

\* lines 57 and 100: src_coll = src_db[...], the handle of the reads
src_coll == "src"

\* the destination handle bound to the source collection
dst_coll_on_source == "src"

\* lines 58 and 101 (and dst_db, line 87): dst_coll = dst_db[...], the handle
\* every replace_one, delete_one and drop_collection is called on
dst_coll == "dst"

\* the database behind a handle of run r
Db(r, handle) == IF handle = "src" THEN src ELSE dst[run[r].d]

\* the effect of a write through a handle: the database behind it becomes db
Store(r, handle, db) ==
    IF handle = "src"
    THEN /\ src' = db
         /\ dst' = dst
    ELSE /\ dst' = [dst EXCEPT ![run[r].d] = db]
         /\ src' = src

\* ------------------------------------------------------------ main
\* a call of main(); the second call follows the return of the first
Main_Start(r) ==
    /\ run[r].pc = "idle"
    /\ IF r = 1 THEN TRUE ELSE run[r - 1].pc = "done"
    /\ Set(r, [Idle EXCEPT !.pc = "main_loop"])
    /\ start' = [start EXCEPT ![r] = dst]
    /\ UNCHANGED <<src, dst, threshold, ops, log, faults, final>>

\* a call of main() by another process, while an earlier call may still run:
\* the script takes no lock
Main_Start_Concurrent(r) ==
    /\ run[r].pc = "idle"
    /\ Set(r, [Idle EXCEPT !.pc = "main_loop"])
    /\ start' = [start EXCEPT ![r] = dst]
    /\ UNCHANGED <<src, dst, threshold, ops, log, faults, final>>

\* lines 138 and 139 in the other order: reconcile_deletions is called first,
\* and incremental_upsert not at all
Main_Loop_ReconcileFirst(r) ==
    /\ run[r].pc = "main_loop"
    /\ IF run[r].d < NumDst
       THEN /\ Set(r, [Idle EXCEPT !.pc = "r_start", !.d = run[r].d + 1])
            /\ UNCHANGED <<log, final>>
       ELSE /\ Set(r, [Idle EXCEPT !.pc = "done", !.d = run[r].d])
            /\ log' = log \cup {Entry(r, "info", "completed", NoColl, <<>>)}
            /\ final' = [final EXCEPT ![r] = dst]
    /\ UNCHANGED <<src, dst, threshold, ops, faults, start>>

\* the loop of line 137 started over when it has ended (a `while True:`
\* around it)
Main_Loop_Forever(r) ==
    /\ run[r].pc = "main_loop"
    /\ IF run[r].d < NumDst
       THEN Set(r, [Idle EXCEPT !.pc = "u_start", !.d = run[r].d + 1])
       ELSE Set(r, [Idle EXCEPT !.pc = "main_loop", !.d = 0])
    /\ UNCHANGED <<src, dst, threshold, ops, log, faults, start, final>>

\* for dst_client in dst_clients: ... ; the completion entry of line 140
Main_Loop(r) ==
    /\ run[r].pc = "main_loop"
    /\ IF run[r].d < NumDst
       THEN /\ Set(r, [Idle EXCEPT !.pc = "u_start", !.d = run[r].d + 1])
            /\ UNCHANGED <<log, final>>
       ELSE /\ Set(r, [Idle EXCEPT !.pc = "done", !.d = run[r].d])
            /\ log' = log \cup {Entry(r, "info", "completed", NoColl, <<>>)}
            /\ final' = [final EXCEPT ![r] = dst]
    /\ UNCHANGED <<src, dst, threshold, ops, faults, start>>

\* ------------------------------------------------------------ incremental_upsert
\* the handler of lines 76-77: a PyMongoError is logged and the loop goes on
\* with the next collection; anything else leaves incremental_upsert and main
UpsertRaiseAbortsLoop(r, e) ==
    IF Catches("PyMongoError", e)
    THEN /\ log' = log \cup {Entry(r, "error", "upsert_error", run[r].coll, <<>>)}
         /\ Set(r, [Locals(r) EXCEPT !.pc = "r_start"])
    ELSE /\ log' = log
         /\ Crash(r, e)

UpsertRaise(r, e) ==
    IF Catches("PyMongoError", e)
    THEN /\ log' = log \cup {Entry(r, "error", "upsert_error", run[r].coll, <<>>)}
         /\ Set(r, [Locals(r) EXCEPT !.pc = "u_loop", !.todo = run[r].todo])
    ELSE /\ log' = log
         /\ Crash(r, e)

\* lines 49-54: the start entry, then src_db.list_collection_names(), which
\* no try encloses
Upsert_Start(r, o) ==
    /\ run[r].pc = "u_start"
    /\ Call(r, o, "upsert", src_coll, "list_collection_names", NoColl, 0)
    /\ log' = log \cup {Entry(r, "info", "upsert_start", NoColl, <<>>)}
    /\ IF o = "ok"
       THEN Set(r, [run[r] EXCEPT !.pc = "u_loop",
                                  !.todo = list_collection_names(src)])
       ELSE Crash(r, o)
    /\ UNCHANGED <<src, dst, threshold, start, final>>

\* lines 54-58: the next collection name; reserved names are passed over;
\* the end of the loop returns to main, which calls reconcile_deletions
Upsert_Loop(r) ==
    /\ run[r].pc = "u_loop"
    /\ IF run[r].todo = {}
       THEN Set(r, [Locals(r) EXCEPT !.pc = "r_start"])
       ELSE \E c \in run[r].todo :
              IF Reserved(c)
              THEN Set(r, [run[r] EXCEPT !.todo = @ \ {c}])
              ELSE Set(r, [run[r] EXCEPT !.todo = @ \ {c}, !.coll = c,
                                         !.pc = "u_count"])
    /\ UNCHANGED <<src, dst, threshold, ops, log, faults, start, final>>

\* lines 61-67: the count, the skip of an empty collection, the choice of
\* strategy
Upsert_Count(r, o) ==
    /\ run[r].pc = "u_count"
    /\ Call(r, o, "upsert", src_coll, "count_documents", run[r].coll, 0)
    /\ IF o = "ok"
       THEN LET src_count == count_documents(src, run[r].coll) IN
            IF src_count = 0
            THEN /\ log' = log
                 /\ Set(r, [Locals(r) EXCEPT !.pc = "u_loop",
                                             !.todo = run[r].todo])
            ELSE /\ log' = log \cup {Entry(r, "info", "processing",
                                           run[r].coll, <<src_count>>)}
                 /\ Set(r, [run[r] EXCEPT
                        !.n = src_count,
                        !.pc = IF Materialize(src_count, threshold)
                               THEN "u_find" ELSE "u_next_s"])
       ELSE UpsertRaise(r, o)
    /\ UNCHANGED <<src, dst, threshold, start, final>>

\* line 68: source_docs = list(src_coll.find({}))
Upsert_FindAll(r, o) ==
    /\ run[r].pc = "u_find"
    /\ Call(r, o, "upsert", src_coll, "find", run[r].coll, 0)
    /\ IF o = "ok"
       THEN /\ log' = log
            /\ Set(r, [run[r] EXCEPT !.docs = Coll(src, run[r].coll),
                                     !.seen = {}, !.pc = "u_write_m"])
       ELSE UpsertRaise(r, o)
    /\ UNCHANGED <<src, dst, threshold, start, final>>

\* lines 69-70: one replace_one of the materialized list
Upsert_Write_M(r, o) ==
    /\ run[r].pc = "u_write_m"
    /\ \E id \in DOMAIN run[r].docs \ run[r].seen :
         /\ Call(r, o, "upsert", dst_coll, "replace_one", run[r].coll, id)
         /\ IF o = "ok"
            THEN /\ Store(r, dst_coll,
                          replace_one(Db(r, dst_coll), run[r].coll, id,
                                      run[r].docs[id]))
                 /\ log' = log
                 /\ Set(r, [run[r] EXCEPT !.seen = @ \cup {id}])
            ELSE /\ UNCHANGED <<src, dst>>
                 /\ UpsertRaise(r, o)
    /\ UNCHANGED <<threshold, start, final>>

\* line 71: the completion entry of the MATERIALIZE branch
Upsert_Done_M(r) ==
    /\ run[r].pc = "u_write_m"
    /\ DOMAIN run[r].docs \ run[r].seen = {}
    /\ log' = log \cup {Entry(r, "info", "upserted", run[r].coll,
                              <<Cardinality(DOMAIN run[r].docs)>>)}
    /\ Set(r, [Locals(r) EXCEPT !.pc = "u_loop", !.todo = run[r].todo])
    /\ UNCHANGED <<src, dst, threshold, ops, faults, start, final>>

\* line 73: the cursor of the STREAM branch yields the next source document,
\* or ends the loop (no completion entry follows)
Upsert_Next_S(r, o) ==
    /\ run[r].pc = "u_next_s"
    /\ Call(r, o, "upsert", src_coll, "find_next", run[r].coll, 0)
    /\ IF o = "ok"
       THEN /\ log' = log
            /\ LET rest == DOMAIN Coll(src, run[r].coll) \ run[r].seen IN
               IF rest = {}
               THEN Set(r, [Locals(r) EXCEPT !.pc = "u_loop",
                                             !.todo = run[r].todo])
               ELSE \E id \in rest :
                      Set(r, [run[r] EXCEPT
                             !.doc = id,
                             !.docs = [i \in {id} |-> Coll(src, run[r].coll)[id]],
                             !.seen = @ \cup {id},
                             !.pc = "u_write_s"])
       ELSE UpsertRaise(r, o)
    /\ UNCHANGED <<src, dst, threshold, start, final>>

\* line 74: the replace_one of the STREAM branch
Upsert_Write_S(r, o) ==
    /\ run[r].pc = "u_write_s"
    /\ Call(r, o, "upsert", dst_coll, "replace_one", run[r].coll, run[r].doc)
    /\ IF o = "ok"
       THEN /\ Store(r, dst_coll,
                     replace_one(Db(r, dst_coll), run[r].coll, run[r].doc,
                                 run[r].docs[run[r].doc]))
            /\ log' = log
            /\ Set(r, [run[r] EXCEPT !.doc = 0, !.docs = EmptyColl,
                                     !.pc = "u_next_s"])
       ELSE /\ UNCHANGED <<src, dst>>
            /\ UpsertRaise(r, o)
    /\ UNCHANGED <<threshold, start, final>>

IncrementalUpsert(r, o) ==
    \/ Upsert_Start(r, o)
    \/ o = "ok" /\ Upsert_Loop(r)
    \/ Upsert_Count(r, o)
    \/ Upsert_FindAll(r, o)
    \/ Upsert_Write_M(r, o)
    \/ o = "ok" /\ Upsert_Done_M(r)
    \/ Upsert_Next_S(r, o)
    \/ Upsert_Write_S(r, o)

\* ------------------------------------------------------------ reconcile_deletions
\* the handler of lines 130-131, around the whole body: a PyMongoError is
\* logged and reconcile_deletions returns; anything else leaves main
ReconcileRaise(r, e) ==
    IF Catches("PyMongoError", e)
    THEN /\ log' = log \cup {Entry(r, "error", "recon_error", NoColl, <<>>)}
         /\ Set(r, [Locals(r) EXCEPT !.pc = "main_loop"])
    ELSE /\ log' = log
         /\ Crash(r, e)

\* lines 83-89: the start entry and the source's collection names
Reconcile_ListSrc(r, o) ==
    /\ run[r].pc = "r_start"
    /\ Call(r, o, "reconcile", src_coll, "list_collection_names", NoColl, 0)
    /\ IF o = "ok"
       THEN /\ log' = log \cup {Entry(r, "info", "recon_start", NoColl, <<>>)}
            /\ Set(r, [run[r] EXCEPT
                   !.todo = {c \in list_collection_names(src) : ~Reserved(c)},
                   !.pc = "r_list_dst"])
       ELSE IF Catches("PyMongoError", o)
            THEN /\ log' = log \cup
                      {Entry(r, "info", "recon_start", NoColl, <<>>),
                       Entry(r, "error", "recon_error", NoColl, <<>>)}
                 /\ Set(r, [Locals(r) EXCEPT !.pc = "main_loop"])
            ELSE /\ log' = log \cup
                      {Entry(r, "info", "recon_start", NoColl, <<>>)}
                 /\ Crash(r, o)
    /\ UNCHANGED <<src, dst, threshold, start, final>>

\* lines 90-99: the destination's collection names; the names to drop and
\* the names to reconcile
Reconcile_ListDst(r, o) ==
    /\ run[r].pc = "r_list_dst"
    /\ Call(r, o, "reconcile", dst_coll, "list_collection_names", NoColl, 0)
    /\ IF o = "ok"
       THEN /\ log' = log
            /\ LET src_cols == run[r].todo
                   dst_cols == {c \in list_collection_names(dst[run[r].d]) :
                                  ~Reserved(c)}
               IN  Set(r, [run[r] EXCEPT !.drops = dst_cols \ src_cols,
                                         !.todo = dst_cols \cap src_cols,
                                         !.pc = "r_drop"])
       ELSE ReconcileRaise(r, o)
    /\ UNCHANGED <<src, dst, threshold, start, final>>

\* the drop without the try of lines 93-97: a raising drop_collection goes
\* to the handler around the body
Reconcile_Drop_Unguarded(r, o) ==
    /\ run[r].pc = "r_drop"
    /\ \E c \in run[r].drops :
         /\ Call(r, o, "reconcile", dst_coll, "drop_collection", c, 0)
         /\ IF o = "ok"
            THEN /\ Store(r, dst_coll, drop_collection(Db(r, dst_coll), c))
                 /\ log' = log \cup {Entry(r, "info", "dropping", c, <<>>)}
                 /\ Set(r, [run[r] EXCEPT !.drops = @ \ {c}])
            ELSE /\ UNCHANGED <<src, dst>>
                 /\ ReconcileRaise(r, o)
    /\ UNCHANGED <<threshold, start, final>>

\* lines 92-97: one drop; any Exception is logged and the loop goes on
Reconcile_Drop(r, o) ==
    /\ run[r].pc = "r_drop"
    /\ \E c \in run[r].drops :
         /\ Call(r, o, "reconcile", dst_coll, "drop_collection", c, 0)
         /\ Set(r, [run[r] EXCEPT !.drops = @ \ {c}])
         /\ IF o = "ok"
            THEN /\ Store(r, dst_coll, drop_collection(Db(r, dst_coll), c))
                 /\ log' = log \cup {Entry(r, "info", "dropping", c, <<>>)}
            ELSE /\ UNCHANGED <<src, dst>>
                 /\ log' = log \cup {Entry(r, "info", "dropping", c, <<>>),
                                     Entry(r, "error", "drop_failed", c, <<>>)}
    /\ UNCHANGED <<threshold, start, final>>

\* line 99: the drop loop has ended
Reconcile_DropsDone(r) ==
    /\ run[r].pc = "r_drop"
    /\ run[r].drops = {}
    /\ Set(r, [run[r] EXCEPT !.pc = "r_loop"])
    /\ UNCHANGED <<src, dst, threshold, ops, log, faults, start, final>>

\* lines 99-101: the next collection of the intersection, or the return
Reconcile_Loop(r) ==
    /\ run[r].pc = "r_loop"
    /\ IF run[r].todo = {}
       THEN Set(r, [Locals(r) EXCEPT !.pc = "main_loop"])
       ELSE \E c \in run[r].todo :
              Set(r, [run[r] EXCEPT !.todo = @ \ {c}, !.coll = c,
                                    !.pc = "r_count_src"])
    /\ UNCHANGED <<src, dst, threshold, ops, log, faults, start, final>>

\* the handler of lines 106-108: any Exception is logged, next collection
CountRaise(r, e) ==
    /\ log' = log \cup {Entry(r, "error", "count_error", run[r].coll, <<>>)}
    /\ Set(r, [Locals(r) EXCEPT !.pc = "r_loop", !.todo = run[r].todo])

\* line 104
Reconcile_CountSrc(r, o) ==
    /\ run[r].pc = "r_count_src"
    /\ Call(r, o, "reconcile", src_coll, "count_documents", run[r].coll, 0)
    /\ IF o = "ok"
       THEN /\ log' = log
            /\ Set(r, [run[r] EXCEPT !.n = count_documents(src, run[r].coll),
                                     !.pc = "r_count_dst"])
       ELSE CountRaise(r, o)
    /\ UNCHANGED <<src, dst, threshold, start, final>>

\* lines 105-113 and 123: the destination count, the entry, the strategy
Reconcile_CountDst(r, o) ==
    /\ run[r].pc = "r_count_dst"
    /\ Call(r, o, "reconcile", dst_coll, "count_documents", run[r].coll, 0)
    /\ IF o = "ok"
       THEN /\ log' = log \cup
                 {Entry(r, "info", "reconciling", run[r].coll,
                        <<run[r].n, count_documents(dst[run[r].d], run[r].coll)>>)}
            /\ Set(r, [run[r] EXCEPT
                   !.seen = {}, !.deleted = 0,
                   !.pc = IF Materialize(run[r].n, threshold)
                          THEN "r_ids" ELSE "r_next_s"])
       ELSE CountRaise(r, o)
    /\ UNCHANGED <<src, dst, threshold, start, final>>

\* line 114: source_ids = set(doc["_id"] for doc in src_coll.find(...))
Reconcile_SourceIds(r, o) ==
    /\ run[r].pc = "r_ids"
    /\ Call(r, o, "reconcile", src_coll, "find", run[r].coll, 0)
    /\ IF o = "ok"
       THEN /\ log' = log
            /\ Set(r, [run[r] EXCEPT !.ids = DOMAIN Coll(src, run[r].coll),
                                     !.pc = "r_next_m"])
       ELSE ReconcileRaise(r, o)
    /\ UNCHANGED <<src, dst, threshold, start, final>>

\* line 117 with the test inverted
StaleInMemoryInverted(id, source_ids) == id \in source_ids

\* line 117: doc["_id"] not in source_ids
StaleInMemory(id, source_ids) == id \notin source_ids

\* lines 116-121: the destination cursor yields the next id, or ends the
\* loop with the completion entry
Reconcile_Next_M(r, o) ==
    /\ run[r].pc = "r_next_m"
    /\ Call(r, o, "reconcile", dst_coll, "find_next", run[r].coll, 0)
    /\ IF o = "ok"
       THEN LET rest == DOMAIN Coll(dst[run[r].d], run[r].coll) \ run[r].seen IN
            IF rest = {}
            THEN /\ log' = log \cup {Entry(r, "info", "deleted", run[r].coll,
                                           <<run[r].deleted>>)}
                 /\ Set(r, [Locals(r) EXCEPT !.pc = "r_loop",
                                             !.todo = run[r].todo])
            ELSE /\ log' = log
                 /\ \E id \in rest :
                      IF StaleInMemory(id, run[r].ids)
                      THEN Set(r, [run[r] EXCEPT !.seen = @ \cup {id},
                                                 !.doc = id, !.pc = "r_del_m"])
                      ELSE Set(r, [run[r] EXCEPT !.seen = @ \cup {id}])
       ELSE ReconcileRaise(r, o)
    /\ UNCHANGED <<src, dst, threshold, start, final>>

\* lines 118-119
Reconcile_Delete_M(r, o) ==
    /\ run[r].pc = "r_del_m"
    /\ Call(r, o, "reconcile", dst_coll, "delete_one", run[r].coll, run[r].doc)
    /\ IF o = "ok"
       THEN /\ Store(r, dst_coll,
                     delete_one(Db(r, dst_coll), run[r].coll, run[r].doc))
            /\ log' = log
            /\ Set(r, [run[r] EXCEPT !.doc = 0, !.deleted = @ + 1,
                                     !.pc = "r_next_m"])
       ELSE /\ UNCHANGED <<src, dst>>
            /\ ReconcileRaise(r, o)
    /\ UNCHANGED <<threshold, start, final>>

\* lines 124 and 128: the destination cursor of the STREAM branch
Reconcile_Next_S(r, o) ==
    /\ run[r].pc = "r_next_s"
    /\ Call(r, o, "reconcile", dst_coll, "find_next", run[r].coll, 0)
    /\ IF o = "ok"
       THEN LET rest == DOMAIN Coll(dst[run[r].d], run[r].coll) \ run[r].seen IN
            IF rest = {}
            THEN /\ log' = log \cup {Entry(r, "info", "deleted", run[r].coll,
                                           <<run[r].deleted>>)}
                 /\ Set(r, [Locals(r) EXCEPT !.pc = "r_loop",
                                             !.todo = run[r].todo])
            ELSE /\ log' = log
                 /\ \E id \in rest :
                      Set(r, [run[r] EXCEPT !.seen = @ \cup {id}, !.doc = id,
                                            !.pc = "r_exists"])
       ELSE ReconcileRaise(r, o)
    /\ UNCHANGED <<src, dst, threshold, start, final>>

\* line 125 testing for a match instead of for none
StaleByQueryInverted(db, c, id) == count_documents_id(db, c, id) > 0

\* line 125: src_coll.count_documents({"_id": id}, limit=1) == 0
StaleByQuery(db, c, id) == count_documents_id(db, c, id) = 0

\* line 125: the existence check against the source
Reconcile_Exists(r, o) ==
    /\ run[r].pc = "r_exists"
    /\ Call(r, o, "reconcile", src_coll, "count_documents_id", run[r].coll,
            run[r].doc)
    /\ IF o = "ok"
       THEN /\ log' = log
            /\ IF StaleByQuery(src, run[r].coll, run[r].doc)
               THEN Set(r, [run[r] EXCEPT !.pc = "r_del_s"])
               ELSE Set(r, [run[r] EXCEPT !.doc = 0, !.pc = "r_next_s"])
       ELSE ReconcileRaise(r, o)
    /\ UNCHANGED <<src, dst, threshold, start, final>>

\* lines 126-127
Reconcile_Delete_S(r, o) ==
    /\ run[r].pc = "r_del_s"
    /\ Call(r, o, "reconcile", dst_coll, "delete_one", run[r].coll, run[r].doc)
    /\ IF o = "ok"
       THEN /\ Store(r, dst_coll,
                     delete_one(Db(r, dst_coll), run[r].coll, run[r].doc))
            /\ log' = log
            /\ Set(r, [run[r] EXCEPT !.doc = 0, !.deleted = @ + 1,
                                     !.pc = "r_next_s"])
       ELSE /\ UNCHANGED <<src, dst>>
            /\ ReconcileRaise(r, o)
    /\ UNCHANGED <<threshold, start, final>>

ReconcileDeletions(r, o) ==
    \/ Reconcile_ListSrc(r, o)
    \/ Reconcile_ListDst(r, o)
    \/ Reconcile_Drop(r, o)
    \/ o = "ok" /\ Reconcile_DropsDone(r)
    \/ o = "ok" /\ Reconcile_Loop(r)
    \/ Reconcile_CountSrc(r, o)
    \/ Reconcile_CountDst(r, o)
    \/ Reconcile_SourceIds(r, o)
    \/ Reconcile_Next_M(r, o)
    \/ Reconcile_Delete_M(r, o)
    \/ Reconcile_Next_S(r, o)
    \/ Reconcile_Exists(r, o)
    \/ Reconcile_Delete_S(r, o)

\* ------------------------------------------------------------ specifications
\* the fixture is restored and the threshold lowered for a second run, which
\* is then compared with the first: to 0 (STREAM for every document count
\* above 0) or to the configured value
Main_Restart ==
    /\ run[1].pc = "done"
    /\ run[2].pc = "idle"
    /\ Set(2, [Idle EXCEPT !.pc = "main_loop"])
    /\ dst' = start[1]
    /\ start' = [start EXCEPT ![2] = start[1]]
    /\ \E t \in {0, IN_MEMORY_ID_THRESHOLD} : threshold' = t
    /\ UNCHANGED <<src, ops, log, faults, final>>

Body(r, o) ==
    \/ o = "ok" /\ Main_Loop(r)
    \/ IncrementalUpsert(r, o)
    \/ ReconcileDeletions(r, o)

\* main() run twice in a row, no store call raising
Next == \E r \in Runs : Main_Start(r) \/ Body(r, "ok")

Spec == Init /\ [][Next]_vars

\* one run of main() in which one store call, any of them, may raise a
\* PyMongoError
NextFault == Main_Start(1) \/ \E o \in {"ok", PyMongoError} : Body(1, o)

SpecFault == InitFault /\ [][NextFault]_vars

\* the same fixture run under two thresholds
NextEquiv == Main_Start(1) \/ Main_Restart \/ \E r \in Runs : Body(r, "ok")

SpecEquiv == InitEquiv /\ [][NextEquiv]_vars

\* one run of main() in which one store call, any of them, may raise a
\* PyMongoError or another Exception
NextAnyFault == Main_Start(1) \/ \E o \in Outcomes : Body(1, o)

SpecAnyFault == InitAnyFault /\ [][NextAnyFault]_vars

\* two calls of main() at once on the same destinations, no store call
\* raising; the steps of the two interleave in any order
NextConc ==
    \/ Main_Start(1)
    \/ Main_Start_Concurrent(2)
    \/ \E r \in Runs : Body(r, "ok")

SpecConc == InitConc /\ [][NextConc]_vars

\* one call of main(), no store call raising; the interpreter runs the
\* script to its end: a step that can be taken is taken
NextOnce == Main_Start(1) \/ Body(1, "ok")

SpecOnce == Init /\ [][NextOnce]_vars /\ WF_vars(NextOnce)

\* ------------------------------------------------------------ properties
\* a collection name with the reserved prefix "system."
SystemName(c) == Len(c) >= 2 /\ c[1] = "system" /\ c[2] = "."

\* every document of a non-reserved source collection is in db with the
\* source's content
Converged(db) ==
    \A c \in DOMAIN src : ~SystemName(c) =>
      \A id \in DOMAIN src[c] :
        /\ id \in DOMAIN Coll(db, c)
        /\ db[c][id] = src[c][id]

\* C1: after a complete run without a failing store call, every destination
\* holds, for every non-reserved source collection and every id in it, a
\* document at that id whose content is the source's (a full replace),
\* whatever the destination held before.
C1_Convergence ==
    \A r \in Runs : final[r] # NoSnap =>
      \A d \in Dsts : Converged(final[r][d])

\* a run has returned, and a destination held a source id with another
\* content, and another lacked a source id
C1_Witness ==
    /\ final[1] # NoSnap
    /\ \E d \in Dsts : \E c \in DOMAIN src : \E id \in DOMAIN src[c] :
         /\ ~SystemName(c)
         /\ id \in DOMAIN Coll(start[1][d], c)
         /\ start[1][d][c][id] # src[c][id]
    /\ \E d \in Dsts : \E c \in DOMAIN src : \E id \in DOMAIN src[c] :
         /\ ~SystemName(c)
         /\ id \notin DOMAIN Coll(start[1][d], c)

\* C2 as stated: after a complete run, every (collection, id) that was in a
\* destination at run start and is absent from the source is absent from the
\* destination -- of every collection, reserved ones included.
C2_DeletionFidelity_AnyCollection ==
    \A r \in Runs : final[r] # NoSnap =>
      \A d \in Dsts : \A c \in DOMAIN start[r][d] :
        \A id \in DOMAIN start[r][d][c] :
          id \notin DOMAIN Coll(src, c) => id \notin DOMAIN Coll(final[r][d], c)

\* C2, amended: after a complete run without a failing store call, every
\* (collection, id) of a non-reserved collection that was in a destination
\* at run start and is absent from the source is absent from the
\* destination, in the MATERIALIZE and in the STREAM branch.
C2_DeletionFidelity ==
    \A r \in Runs : final[r] # NoSnap =>
      \A d \in Dsts : \A c \in DOMAIN start[r][d] : ~SystemName(c) =>
        \A id \in DOMAIN start[r][d][c] :
          id \notin DOMAIN Coll(src, c) => id \notin DOMAIN Coll(final[r][d], c)

\* a run has returned after deleting documents in both branches
C2_Witness ==
    /\ final[1] # NoSnap
    /\ \E o \in ops :
         /\ o.op = "delete_one"
         /\ Materialize(count_documents(src, o.coll), threshold)
    /\ \E o \in ops :
         /\ o.op = "delete_one"
         /\ ~Materialize(count_documents(src, o.coll), threshold)

\* C3: after a complete run without a failing store call, no non-reserved
\* collection name that was in a destination and is not in the source
\* exists in that destination any more (the collection is gone, not empty),
\* and no delete_one is ever issued on a collection the source lacks.
C3_CollectionRemoval ==
    /\ \A r \in Runs : final[r] # NoSnap =>
         \A d \in Dsts : \A c \in DOMAIN start[r][d] :
           (~SystemName(c) /\ c \notin DOMAIN src) => c \notin DOMAIN final[r][d]
    /\ \A o \in ops : o.op = "delete_one" => o.coll \in DOMAIN src

\* a run has returned, and a destination held a collection the source lacks
C3_Witness ==
    /\ final[1] # NoSnap
    /\ \E d \in Dsts : \E c \in DOMAIN start[1][d] :
         /\ ~SystemName(c)
         /\ c \notin DOMAIN src
         /\ start[1][d][c] # EmptyColl

SystemNames(db) == {c \in DOMAIN db : SystemName(c)}

\* C4: in every reachable state of a run, with or without raising store
\* calls, no store operation names a collection with the reserved prefix,
\* and every destination holds the reserved collections it held at the start
\* of the run, with the same content.
C4_ReservedExclusion ==
    /\ \A o \in ops : ~SystemName(o.coll)
    /\ start[1] # NoSnap =>
         \A d \in Dsts :
           /\ SystemNames(dst[d]) = SystemNames(start[1][d])
           /\ \A c \in SystemNames(dst[d]) : dst[d][c] = start[1][d][c]

\* a run has returned with reserved collections in the source and in a
\* destination (with other content), and in the source and not in another
C4_Witness ==
    /\ run[1].pc = "done"
    /\ \E c \in SystemNames(src) :
         /\ \E d \in Dsts : c \in DOMAIN dst[d] /\ dst[d][c] # src[c]
         /\ \E d \in Dsts : c \notin DOMAIN dst[d]

\* C5: a second run of main against the unchanged source, no store call
\* failing, changes no destination: once the first run has returned, no step
\* changes dst, and the destinations after the second run are as after the
\* first.
C5_Idempotence ==
    /\ [][final[1] # NoSnap => dst' = dst]_vars
    /\ [](final[2] # NoSnap => final[2] = final[1])

\* both runs have returned; the first changed a destination, the second
\* issued writes
C5_Witness ==
    /\ final[2] # NoSnap
    /\ final[1] # start[1]
    /\ \E o \in ops : o.run = 2 /\ o.op = "replace_one"

\* C6 as stated: incremental_upsert issues replace_one for a source document
\* only when the destination lacks the document or holds another content.
C6_OnlyNewOrUpdatedWritten ==
    [][\A o \in ops' \ ops : o.op = "replace_one" =>
         \/ o.id \notin DOMAIN Coll(dst[o.dst], o.coll)
         \/ dst[o.dst][o.coll][o.id] # src[o.coll][o.id]]_vars

\* C7: from the same source and the same destinations, a run that takes the
\* MATERIALIZE branch for every collection (threshold MaxId) and a run
\* under a lower threshold, which takes the STREAM branch for the counts
\* above it, end in the same destination state.
C7_StrategyEquivalence ==
    final[2] # NoSnap => final[2] = final[1]

\* both runs have returned; the second queried the source per destination id
\* and deleted documents where the first read the source ids at once
C7_Witness ==
    /\ final[2] # NoSnap
    /\ final[1] # start[1]
    /\ \E o \in ops : \E p \in ops :
         /\ o.run = 1 /\ o.phase = "reconcile" /\ o.op = "delete_one"
         /\ p.run = 2 /\ p.phase = "reconcile" /\ p.op = "delete_one"
         /\ p.coll = o.coll /\ p.dst = o.dst
         /\ \E q \in ops : q.run = 2 /\ q.op = "count_documents_id"
                           /\ q.coll = o.coll /\ q.dst = o.dst
    /\ \E o \in ops : o.run = 1 /\ o.phase = "upsert" /\ o.op = "find"
    /\ \E o \in ops : o.run = 2 /\ o.phase = "upsert" /\ o.op = "find_next"

\* the calls that raised a PyMongoError from the count, the read or the
\* write of one collection in incremental_upsert
UpsertFaults ==
    {f \in faults :
       /\ f.phase = "upsert"
       /\ f.err = PyMongoError
       /\ f.op \in {"count_documents", "find", "find_next", "replace_one"}}

ReconcileStarted(r, d) ==
    \E o \in ops : o.run = r /\ o.dst = d /\ o.phase = "reconcile"

UpsertStarted(r, d) ==
    \E o \in ops : o.run = r /\ o.dst = d /\ o.phase = "upsert"

\* no call on collection c of destination d raised
NoFaultOn(d, c) == \A g \in faults : ~(g.dst = d /\ g.coll = c)

\* C8: a PyMongoError raised by the count, the read or the write of one
\* collection in incremental_upsert is caught and logged and does not end
\* the run; once the upsert pass of that destination is over, every
\* collection the loop had not reached (and on which no call raised) holds
\* the source's documents; and the run does not go on to the next
\* destination, or return, without reconcile_deletions having run for that
\* destination.
C8_UpsertFailureIsolation ==
    \A f \in UpsertFaults :
      /\ f \notin run[f.run].exc
      /\ \E e \in log : /\ e.run = f.run /\ e.dst = f.dst
                        /\ e.level = "error" /\ e.msg = "upsert_error"
                        /\ e.coll = f.coll
      /\ ReconcileStarted(f.run, f.dst) =>
           \A c \in f.rest \cap DOMAIN src :
             (~SystemName(c) /\ NoFaultOn(f.dst, c)) =>
               \A id \in DOMAIN src[c] :
                 /\ id \in DOMAIN Coll(dst[f.dst], c)
                 /\ dst[f.dst][c][id] = src[c][id]
      /\ (run[f.run].pc = "done" \/ run[f.run].d > f.dst) =>
           ReconcileStarted(f.run, f.dst)

\* the run has returned after a PyMongoError in the upsert of one
\* collection, with a non-empty collection still to come that the
\* destination did not hold
C8_Witness ==
    /\ run[1].pc = "done"
    /\ \E f \in UpsertFaults :
         \E c \in f.rest \cap DOMAIN src :
           /\ ~SystemName(c)
           /\ src[c] # EmptyColl
           /\ c \notin DOMAIN start[1][f.dst]
           /\ Coll(dst[f.dst], c) = src[c]

\* the calls that raised a PyMongoError during the document-level
\* reconciliation of one collection pair
ReconcileFaults ==
    {f \in faults :
       /\ f.phase = "reconcile"
       /\ f.err = PyMongoError
       /\ f.op \in {"count_documents", "find", "find_next",
                    "count_documents_id", "delete_one"}}

\* C9 as stated: when one PyMongoError is raised by the count, the id read,
\* the existence check or the delete of one collection pair, every other
\* collection of the intersection is reconciled by the end of the run: the
\* destination holds no id in it that the source lacks.
C9_ReconcileFailureIsolation ==
    \A f \in ReconcileFaults :
      (run[f.run].pc = "done" /\ faults = {f}) =>
        \A c \in (DOMAIN src \cap DOMAIN dst[f.dst]) \ {f.coll} :
          ~SystemName(c) => DOMAIN dst[f.dst][c] \subseteq DOMAIN src[c]

\* C10 as stated: when the only errors raised are store errors, the run ends
\* with every destination having had its upsert pass and its reconciliation
\* pass.
C10_CrossDestinationIsolation ==
    (run[1].pc \in {"done", "crashed"} /\ \A f \in faults : f.err = PyMongoError) =>
      \A d \in Dsts : UpsertStarted(1, d) /\ ReconcileStarted(1, d)

\* C11 as stated: an error that is no PyMongoError, raised by any store
\* call of a run, is caught by no handler: it leaves main (the run is over,
\* nothing more is processed) with that call as its cause.
C11_UnanticipatedErrorsPropagate ==
    \A f \in faults :
      f.err = OtherError =>
        /\ run[f.run].pc = "crashed"
        /\ f \in run[f.run].exc

\* C12: when a non-reserved collection is in the source with no document and
\* in a destination with N documents, then after a complete run without a
\* failing store call the destination still has the collection, with no
\* document: the upsert phase did no more than count it, the reconciliation
\* phase deleted each of the N documents, and it was not dropped.
C12_EmptySourceReconciliation ==
    \A r \in Runs : final[r] # NoSnap =>
      \A d \in Dsts : \A c \in DOMAIN src \cap DOMAIN start[r][d] :
        (~SystemName(c) /\ DOMAIN src[c] = {}) =>
          /\ c \in DOMAIN final[r][d]
          /\ DOMAIN final[r][d][c] = {}
          /\ \A o \in ops :
               (o.run = r /\ o.dst = d /\ o.coll = c) =>
                 /\ o.phase = "upsert" => o.op = "count_documents"
                 /\ o.op # "drop_collection"
          /\ \A id \in DOMAIN start[r][d][c] :
               \E o \in ops : /\ o.run = r /\ o.dst = d /\ o.coll = c
                              /\ o.op = "delete_one" /\ o.id = id

\* a run has returned; a destination held several documents in a collection
\* the source has with none
C12_Witness ==
    /\ final[1] # NoSnap
    /\ \E d \in Dsts : \E c \in DOMAIN src \cap DOMAIN start[1][d] :
         /\ ~SystemName(c)
         /\ DOMAIN src[c] = {}
         /\ Cardinality(DOMAIN start[1][d][c]) >= 2

\* the calls that read
ReadOps ==
    {"list_collection_names", "count_documents", "count_documents_id",
     "find", "find_next"}

\* C13: no step of a run, in either strategy, with or without a raising
\* call, changes the source database, and every call issued on the source
\* is a read.
C13_SourceReadOnly ==
    [][/\ src' = src
       /\ \A o \in ops' : o.target = "src" => o.op \in ReadOps]_vars

\* a run has returned after a raising call, having written, deleted and
\* dropped in a destination, with both strategies used
C13_Witness ==
    /\ run[1].pc = "done"
    /\ faults # {}
    /\ \E o \in ops : o.op = "replace_one"
    /\ \E o \in ops : o.op = "delete_one"
    /\ \E o \in ops : o.op = "drop_collection"
    /\ \E o \in ops : o.phase = "reconcile" /\ o.op = "find"
    /\ \E o \in ops : o.phase = "reconcile" /\ o.op = "count_documents_id"
    /\ \E o \in ops : o.phase = "upsert" /\ o.op = "find"
    /\ \E o \in ops : o.phase = "upsert" /\ o.op = "find_next"

\* what one complete run alone, no call failing, makes of a destination db:
\* the reserved collections as they were; of the others, those of the source
\* that have documents or that db already had, with the source's documents
SingleRunResult(db) ==
    [c \in {c \in DOMAIN db : SystemName(c)} \cup
           {c \in DOMAIN src : /\ ~SystemName(c)
                               /\ (DOMAIN src[c] # {} \/ c \in DOMAIN db)} |->
       IF SystemName(c) THEN db[c] ELSE src[c]]

\* a run alone produces SingleRunResult
SingleRunProduces ==
    \A r \in Runs : final[r] # NoSnap =>
      \A d \in Dsts : final[r][d] = SingleRunResult(start[r][d])


BothReturned == run[1].pc = "done" /\ run[2].pc = "done"

UpsertFinishedWith(r, d, c) ==
    /\ \E o \in ops : /\ o.run = r /\ o.dst = d /\ o.phase = "upsert"
                      /\ o.coll = c /\ o.op = "count_documents"
    /\ \A id \in DOMAIN src[c] :
         \E o \in ops : /\ o.run = r /\ o.dst = d /\ o.phase = "upsert"
                        /\ o.coll = c /\ o.op = "replace_one" /\ o.id = id

\* the reconciliation of destination d by run r has ended: the collections
\* the source lacks are gone and every collection pair has its "Deleted"
\* entry
ReconcileEnded(r, d) ==
    /\ ReconcileStarted(r, d)
    /\ \A c \in DOMAIN dst[d] : ~SystemName(c) => c \in DOMAIN src
    /\ \A c \in DOMAIN src \cap DOMAIN dst[d] : ~SystemName(c) =>
         \E e \in log : /\ e.run = r /\ e.dst = d /\ e.msg = "deleted"
                        /\ e.coll = c

\* C15: within a run without a failing call, a store call of
\* reconcile_deletions for a destination is issued only after
\* incremental_upsert has finished with every non-reserved source collection
\* for that destination; no call of the upsert pass follows one of the
\* reconciliation of the same destination; and a call for a destination is
\* issued only after the reconciliation of every earlier destination has
\* ended, and never for an earlier destination again.
C15_PhaseOrdering ==
    [][\A o \in ops' \ ops :
         /\ o.phase = "reconcile" =>
              \A c \in DOMAIN src :
                ~SystemName(c) => UpsertFinishedWith(o.run, o.dst, c)
         /\ o.phase = "upsert" => ~ReconcileStarted(o.run, o.dst)
         /\ \A k \in Dsts : k < o.dst => ReconcileEnded(o.run, k)
         /\ \A p \in ops : p.run = o.run => p.dst <= o.dst]_vars

\* a run has returned after both passes on every destination, with
\* documents to write, documents to delete and a collection to drop
C15_Witness ==
    /\ run[1].pc = "done"
    /\ \A d \in Dsts : UpsertStarted(1, d) /\ ReconcileStarted(1, d)
    /\ \E o \in ops : o.run = 1 /\ o.dst = 1 /\ o.op = "replace_one"
    /\ \E o \in ops : o.run = 1 /\ o.dst = 1 /\ o.op = "delete_one"
    /\ \E o \in ops : o.run = 1 /\ o.dst = 1 /\ o.op = "drop_collection"


\* C16: with a quiescent source and no failing call, one invocation of main
\* eventually returns; when it has returned, the upsert pass and the
\* reconciliation pass have run for every destination; a pass is entered
\* for a destination only when no call of that pass has been issued for it
\* (no pass is repeated), the destinations are taken in order, and nothing
\* happens after the return.
C16_SinglePassTermination ==
    /\ <>(run[1].pc = "done")
    /\ [](run[1].pc = "done" =>
            \A d \in Dsts : UpsertStarted(1, d) /\ ReconcileStarted(1, d))
    /\ [][/\ (run'[1].pc = "u_start" /\ run[1].pc # "u_start") =>
               ~UpsertStarted(1, run'[1].d)
          /\ (run'[1].pc = "r_start" /\ run[1].pc # "r_start") =>
               ~ReconcileStarted(1, run'[1].d)
          /\ run'[1].d >= run[1].d
          /\ run[1].pc # "done"]_vars

\* the run has returned after writing, deleting and dropping in the first
\* destination and writing in the last
C16_Witness ==
    /\ run[1].pc = "done"
    /\ final[1] # start[1]
    /\ \E o \in ops : o.dst = 1 /\ o.op = "replace_one"
    /\ \E o \in ops : o.dst = 1 /\ o.op = "delete_one"
    /\ \E o \in ops : o.dst = 1 /\ o.op = "drop_collection"
    /\ \E o \in ops : o.dst = NumDst /\ o.op = "replace_one"


\* the calls that only one strategy issues: the whole-collection read of
\* the source (lines 68 and 114) for MATERIALIZE, the source cursor (line 73)
\* and the per-id query (line 125) for STREAM
MaterializeCall(o) == o.op = "find"

StreamCall(o) ==
    \/ o.phase = "upsert" /\ o.op = "find_next"
    \/ o.op = "count_documents_id"

\* <<run, destination, collection, phase>> of the calls of each strategy
Materialized ==
    {<<o.run, o.dst, o.coll, o.phase>> : o \in {p \in ops : MaterializeCall(p)}}

Streamed ==
    {<<o.run, o.dst, o.coll, o.phase>> : o \in {p \in ops : StreamCall(p)}}

\* C17: for a collection with c documents in the source and threshold t, a
\* phase issues the calls of MATERIALIZE only when c <= t and the calls of
\* STREAM only when c > t (c = t is MATERIALIZE); a phase that went through
\* a collection with documents used the strategy the rule gives; and the two
\* phases never use different strategies for the same collection.
C17_StrategySelection ==
    LET mat == Materialized
        str == Streamed
    IN  /\ \A t \in mat : Cardinality(DOMAIN src[t[3]]) <= threshold
        /\ \A t \in str : Cardinality(DOMAIN src[t[3]]) > threshold
        /\ \A t \in mat : \A u \in str :
             ~(t[1] = u[1] /\ t[2] = u[2] /\ t[3] = u[3])
        /\ \A r \in Runs : final[r] # NoSnap =>
             \A d \in Dsts : \A c \in DOMAIN src :
               (~SystemName(c) /\ DOMAIN src[c] # {}) =>
                 \A phase \in {"upsert", "reconcile"} :
                   IF Cardinality(DOMAIN src[c]) <= threshold
                   THEN <<r, d, c, phase>> \in mat
                   ELSE <<r, d, c, phase>> \in str

\* a run has returned with one collection at the threshold, read whole in
\* both phases, and one collection one document above it, streamed in both
C17_Witness ==
    /\ final[1] # NoSnap
    /\ \E c \in DOMAIN src :
         /\ Cardinality(DOMAIN src[c]) = threshold
         /\ <<1, 1, c, "upsert">> \in Materialized
         /\ <<1, 1, c, "reconcile">> \in Materialized
    /\ \E c \in DOMAIN src :
         /\ Cardinality(DOMAIN src[c]) = threshold + 1
         /\ <<1, 1, c, "upsert">> \in Streamed
         /\ <<1, 1, c, "reconcile">> \in Streamed


\* the drop_collection calls that raised, whatever the error
DropFaults == {f \in faults : f.op = "drop_collection"}

\* C18: when drop_collection raises for one collection the source lacks
\* (any error), the failure is logged and does not end the run; at the end
\* of the run that collection is still in the destination as it was, every
\* other collection the source lacks is gone from it, and no collection of
\* the intersection holds an id the source lacks.
C18_DropFailureIsolation ==
    \A f \in DropFaults :
      /\ run[f.run].pc # "crashed"
      /\ \E e \in log : /\ e.run = f.run /\ e.dst = f.dst
                        /\ e.level = "error" /\ e.msg = "drop_failed"
                        /\ e.coll = f.coll
      /\ run[f.run].pc = "done" =>
           /\ f.coll \in DOMAIN dst[f.dst]
           /\ dst[f.dst][f.coll] = start[f.run][f.dst][f.coll]
           /\ \A c \in DOMAIN start[f.run][f.dst] \ {f.coll} :
                (~SystemName(c) /\ c \notin DOMAIN src) =>
                  c \notin DOMAIN dst[f.dst]
           /\ \A c \in DOMAIN src \cap DOMAIN dst[f.dst] :
                ~SystemName(c) => DOMAIN dst[f.dst][c] \subseteq DOMAIN src[c]

\* the run has returned after a drop that raised an error that is no
\* PyMongoError; another collection was dropped and documents of the
\* intersection were deleted in the same destination
C18_Witness ==
    /\ run[1].pc = "done"
    /\ \E f \in DropFaults :
         /\ f.err = OtherError
         /\ \E o \in ops : /\ o.dst = f.dst /\ o.op = "drop_collection"
                           /\ o.coll # f.coll
                           /\ o.coll \notin DOMAIN dst[f.dst]
         /\ \E o \in ops : o.dst = f.dst /\ o.op = "delete_one"


\* the completion entry of a phase for collection c of destination d, with
\* its count
Completion(r, d, c, msg, n) ==
    \E e \in log : /\ e.run = r /\ e.dst = d /\ e.coll = c
                   /\ e.level = "info" /\ e.msg = msg /\ e.args = <<n>>

\* C19 as stated: after a run without a failing call, every non-reserved
\* source collection with documents has, for every destination, an info
\* entry "Upserted n documents" with n the number of its documents, and
\* every collection pair reconciled has an info entry "Deleted n documents"
\* with n the number of delete_one calls issued for it -- in the MATERIALIZE
\* and in the STREAM branch.
C19_CompletionLogged ==
    \A r \in Runs : final[r] # NoSnap =>
      \A d \in Dsts : \A c \in DOMAIN src : ~SystemName(c) =>
        /\ DOMAIN src[c] # {} =>
             Completion(r, d, c, "upserted", Cardinality(DOMAIN src[c]))
        /\ c \in DOMAIN final[r][d] =>
             Completion(r, d, c, "deleted",
               Cardinality({o \in ops : /\ o.run = r /\ o.dst = d /\ o.coll = c
                                         /\ o.op = "delete_one"}))


\* the (collection, id) pairs on which db disagrees with the source: the
\* document is in one and not in the other, or in both with other content
Disagree(db) ==
    {p \in (DOMAIN db \cup DOMAIN src) \X Ids :
       LET here == Coll(db, p[1])
           there == Coll(src, p[1])
       IN  \/ (p[2] \in DOMAIN here) # (p[2] \in DOMAIN there)
           \/ /\ p[2] \in DOMAIN here
              /\ p[2] \in DOMAIN there
              /\ here[p[2]] # there[p[2]]}

\* C20: in every step of a run, with or without a caught failure, in either
\* strategy: a delete_one is issued only for an id the source collection
\* lacks, a drop_collection only for a name the source lacks, a replace_one
\* that succeeds leaves at its id exactly the source's document; and the
\* pairs on which a destination disagrees with the source after the step are
\* among those before it (their number never increases).
C20_MonotoneApproach ==
    [][/\ \A o \in ops' \ ops :
            /\ o.op = "delete_one" => o.id \notin DOMAIN Coll(src, o.coll)
            /\ o.op = "drop_collection" => o.coll \notin DOMAIN src
            /\ (o.op = "replace_one" /\ faults' = faults) =>
                 /\ o.id \in DOMAIN Coll(dst'[o.dst], o.coll)
                 /\ dst'[o.dst][o.coll][o.id] = src[o.coll][o.id]
       /\ \A d \in Dsts : dst'[d] # dst[d] =>
            LET before == Disagree(dst[d])
                after == Disagree(dst'[d])
            IN  /\ after \subseteq before
                /\ Cardinality(after) <= Cardinality(before)]_vars

\* the run has returned after a caught failure; in the first destination it
\* wrote, deleted and dropped, removed some of the disagreements with the
\* source and left others
C20_Witness ==
    /\ run[1].pc = "done"
    /\ faults # {}
    /\ \A op \in {"replace_one", "delete_one", "drop_collection"} :
         \E o \in ops : o.dst = 1 /\ o.op = op
    /\ Disagree(dst[1]) # Disagree(start[1][1])
    /\ \E p \in Disagree(dst[1]) : ~SystemName(p[1])

=============================================================================
